---- MODULE Spec2Model ----
(***************************************************************************)
(* Model of rh_memory.hpp: the SafeMemory class (a process handle wrapped  *)
(* in a unique_ptr with a CloseHandle deleter, plus typed read/write of    *)
(* another process's memory) together with the part of the Win32 API the   *)
(* class calls: the toolhelp snapshots, FindWindowA, OpenProcess,          *)
(* CloseHandle, ReadProcessMemory and WriteProcessMemory.                  *)
(*                                                                         *)
(* The caller is single threaded.  pc is the caller's position: a          *)
(* constructor and GetModuleBaseAddress are split at the points where a    *)
(* local unique_handle is alive, so that the owner of every handle is      *)
(* visible in the state.                                                   *)
(***************************************************************************)
EXTENDS Integers, Sequences, FiniteSets, TLC

VARIABLES
    procs,            \* OS: the running processes, in toolhelp enumeration order, while
                      \* the constructor runs; no later call consults them
    modules,          \* OS: the loaded modules of the target, in enumeration order
    snapshotsFail,    \* OS: whether CreateToolhelp32Snapshot currently fails
    mem,              \* OS: the bytes of the target's mapped memory
    handleTable,      \* OS: the open handles of the caller and their access mask
    closeErrors,      \* OS: the values CloseHandle was called on that were no open handle
    openRequests,     \* OS: the OpenProcess requests received, in order
    m_processHandle,  \* std::optional<unique_handle>, <<>> is nullopt
    m_processID,      \* std::optional<uint32_t>, <<>> is nullopt
    snapshot_handle,  \* the local unique_handle of AcquireProcessID / GetModuleBaseAddress
    processhandle,    \* the local unique_handle of CreateProcessHandle
    process_id,       \* the constructor's local optional
    processFlags,     \* the constructor's access argument
    ctor,             \* which constructor runs: "name", "window" or "id"
    arg,              \* the constructor's name, title or identifier argument
    module_name,      \* the argument of the running GetModuleBaseAddress, "" outside
    exception,        \* what the constructor threw, "none" if nothing
    pc,               \* position of the caller
    ret,              \* the last completed public call and what it returned
    written,          \* per address: the value of the last successful write still intact
    found             \* per module name: the result of the first completed lookup

vars == << procs, modules, snapshotsFail, mem, handleTable, closeErrors,
           openRequests, m_processHandle, m_processID, snapshot_handle,
           processhandle, process_id, processFlags, ctor, arg, module_name,
           exception, pc, ret, written, found >>

----------------------------------------------------------------------------
\* Bounds of the model.
MaxProcs == 2          \* entries of the process snapshot
MaxModules == 2        \* entries of the module snapshot
MappedTop == 1         \* the target maps the addresses 0..MappedTop
MaxOpenHandles == 2    \* size of the caller's handle table

----------------------------------------------------------------------------
\* Win32 values.
NullHandle == 0
INVALID_HANDLE_VALUE == -1
PROCESS_VM_OPERATION == 8
PROCESS_VM_READ == 16
PROCESS_VM_WRITE == 32
PROCESS_ALL_ACCESS == 2097151

SafeMemory_AllAccess == PROCESS_ALL_ACCESS
SafeMemory_ReadAccess == PROCESS_VM_READ
SafeMemory_WriteAccess == PROCESS_VM_WRITE
SafeMemory_Access == {SafeMemory_AllAccess, SafeMemory_ReadAccess, SafeMemory_WriteAccess}

\* sizeof(T) of the instantiation modelled: a two byte T.
SizeofT == 2

InvalidProcess == "Failed to open a handle to the specified process"
bad_optional_access == "bad_optional_access"

\* std::optional: <<>> is nullopt, <<v>> holds v.
has_value(o) == o # <<>>
value(o) == o[1]

ExeNames == {"target.exe", "other.exe"}
ModuleNames == {"target.exe", "k.dll"}
Byte == 0..1
Mapped == 0..MappedTop
Address == 0..(MappedTop + 1)
ValueT == [1..SizeofT -> Byte]
HandleValues == 1..MaxOpenHandles

\* The snapshots the OS can produce: entry i has process id 4*i / base address i-1.
ProcessLists ==
    UNION {{[i \in 1..n |-> [szExeFile |-> f[i], th32ProcessID |-> 4 * i]] :
              f \in [1..n -> ExeNames]} : n \in 1..MaxProcs}
ModuleLists ==
    UNION {{[i \in 1..n |-> [szModule |-> f[i], modBaseAddr |-> i - 1]] :
              f \in [1..n -> ModuleNames]} : n \in 1..MaxModules}

RunningPids == {procs[i].th32ProcessID : i \in 1..Len(procs)}
HasRight(access, right) == (access \div right) % 2 = 1

----------------------------------------------------------------------------
\* The Win32 calls the class makes.  os is the pair of the handle table and
\* the CloseHandle errors, threaded through the calls that touch handles.

\* The value of the next handle: the lowest free slot, NullHandle if the table is full.
NewHandle(table) ==
    IF HandleValues \ DOMAIN table = {} THEN NullHandle
    ELSE CHOOSE h \in HandleValues \ DOMAIN table :
            \A g \in HandleValues \ DOMAIN table : h <= g

\* The handle table after the OS returned h with the given access mask.
TableWith(table, h, access) ==
    IF h \in HandleValues
    THEN [x \in DOMAIN table \cup {h} |-> IF x = h THEN access ELSE table[x]]
    ELSE table

\* CreateToolhelp32Snapshot: a new handle, or INVALID_HANDLE_VALUE on failure.
CreateToolhelp32Snapshot(table) ==
    IF snapshotsFail \/ NewHandle(table) = NullHandle
    THEN INVALID_HANDLE_VALUE
    ELSE NewHandle(table)

\* OpenProcess: a new handle to a running process, or NULL on failure.
OpenProcess(access, pid, table) ==
    IF pid \in RunningPids THEN NewHandle(table) ELSE NullHandle

\* CloseHandle: closes an open handle; a value that is no open handle is an error.
CloseHandle(handle, os) ==
    IF handle \in DOMAIN os.table
    THEN [table |-> [x \in DOMAIN os.table \ {handle} |-> os.table[x]],
          errors |-> os.errors]
    ELSE [table |-> os.table, errors |-> os.errors \cup {handle}]

\* FindWindowA followed by GetWindowThreadProcessId: every process owns one
\* top-level window; the result is the index of the owner, 0 for no window.
WindowTitleOf(exe) == IF exe = "target.exe" THEN "Target" ELSE "Other"
WindowTitles == {"Target", "Other", "NoSuchWindow"}
FindWindowA(title) ==
    IF \E i \in 1..Len(procs) : WindowTitleOf(procs[i].szExeFile) = title
    THEN CHOOSE i \in 1..Len(procs) :
            /\ WindowTitleOf(procs[i].szExeFile) = title
            /\ \A j \in 1..(i - 1) : WindowTitleOf(procs[j].szExeFile) # title
    ELSE 0

\* The number of leading bytes of [addr, addr + size) the target maps.
MappedPrefix(addr, size) ==
    CHOOSE n \in 0..size :
        /\ \A k \in 0..(n - 1) : addr + k \in Mapped
        /\ n = size \/ addr + n \notin Mapped

\* ReadProcessMemory: the outcomes the OS can produce.  It returns TRUE only
\* when the whole range was copied; a range that leaves the mapped memory is
\* a failure (ERROR_PARTIAL_COPY) after the mapped bytes before it were moved.
ReadProcessMemory(hProcess, addr, size) ==
    IF \/ hProcess \notin DOMAIN handleTable
       \/ ~HasRight(handleTable[hProcess], PROCESS_VM_READ)
    THEN {[ok |-> FALSE, moved |-> 0]}
    ELSE IF MappedPrefix(addr, size) = size
         THEN {[ok |-> TRUE, moved |-> size]}
         ELSE {[ok |-> FALSE, moved |-> MappedPrefix(addr, size)]}

\* WriteProcessMemory: needs PROCESS_VM_WRITE and PROCESS_VM_OPERATION.  A
\* range that leaves the mapped memory is a failure after some of the mapped
\* bytes before it, possibly none, were stored.
WriteProcessMemory(hProcess, addr, size) ==
    IF \/ hProcess \notin DOMAIN handleTable
       \/ ~HasRight(handleTable[hProcess], PROCESS_VM_WRITE)
       \/ ~HasRight(handleTable[hProcess], PROCESS_VM_OPERATION)
    THEN {[ok |-> FALSE, moved |-> 0]}
    ELSE IF MappedPrefix(addr, size) = size
         THEN {[ok |-> TRUE, moved |-> size]}
         ELSE {[ok |-> FALSE, moved |-> k] : k \in 0..MappedPrefix(addr, size)}

\* The target's bytes at [addr, addr + size), and its memory after the first
\* moved bytes of buffer were stored at addr.
Fetch(addr, size) == [i \in 1..size |-> mem[addr + i - 1]]
Store(addr, buffer, moved) ==
    [x \in Mapped |-> IF x >= addr /\ x < addr + moved THEN buffer[x - addr + 1]
                      ELSE mem[x]]

----------------------------------------------------------------------------
\* The class.

\* HandleDisposer::operator(): the condition as written, then CloseHandle.
HandleDisposer(handle, os) ==
    IF handle # INVALID_HANDLE_VALUE \/ handle # NullHandle
    THEN CloseHandle(handle, os)
    ELSE os

\* ~unique_ptr<HANDLE, HandleDisposer>: the deleter runs unless get() is null.
unique_handle_destroy(handle, os) ==
    IF handle # NullHandle THEN HandleDisposer(handle, os) ELSE os

\* The loop "while (Process32Next(...))": entry i is the one Process32Next loads.
RECURSIVE Process32NextLoop(_, _, _)
Process32NextLoop(snapshot, i, process_name) ==
    IF i > Len(snapshot) THEN <<>>
    ELSE IF process_name = snapshot[i].szExeFile
         THEN <<snapshot[i].th32ProcessID>>
         ELSE Process32NextLoop(snapshot, i + 1, process_name)

\* AcquireProcessID after the snapshot was requested.  Process32First loads
\* entry 1, the first Process32Next replaces it by entry 2 before any compare.
AcquireProcessID(handle, snapshot, process_name) ==
    IF handle = INVALID_HANDLE_VALUE THEN <<>>
    ELSE IF Len(snapshot) >= 1 THEN Process32NextLoop(snapshot, 2, process_name)
         ELSE <<>>

\* AcquireProcessIDByWindowName; windowAlive is whether the window still
\* exists when GetWindowThreadProcessId is called.
AcquireProcessIDByWindowName(window_name, windowAlive) ==
    IF FindWindowA(window_name) = 0 THEN <<>>
    ELSE IF ~windowAlive THEN <<>>
         ELSE <<procs[FindWindowA(window_name)].th32ProcessID>>

\* The loop "while (Module32Next(...))" of GetModuleBaseAddress.
RECURSIVE Module32NextLoop(_, _, _)
Module32NextLoop(snapshot, i, name) ==
    IF i > Len(snapshot) THEN <<>>
    ELSE IF name = snapshot[i].szModule
         THEN <<snapshot[i].modBaseAddr>>
         ELSE Module32NextLoop(snapshot, i + 1, name)

ModuleScan(handle, snapshot, name) ==
    IF handle = INVALID_HANDLE_VALUE THEN <<>>
    ELSE IF Len(snapshot) >= 1 THEN Module32NextLoop(snapshot, 2, name)
         ELSE <<>>

----------------------------------------------------------------------------
\* The state machine.

environment == << procs, modules, snapshotsFail >>
ctorLocals == << process_id, processFlags, ctor, arg, exception >>
members == << m_processHandle, m_processID >>

NoCall == [op |-> "none", arg |-> 0, val |-> << >>, transfers |-> 0, moved |-> 0,
           repeat |-> FALSE]

Init ==
    /\ procs \in ProcessLists
    /\ modules \in ModuleLists
    /\ snapshotsFail \in BOOLEAN
    /\ mem = [x \in Mapped |-> 0]
    /\ handleTable = << >>
    /\ closeErrors = {}
    /\ openRequests = << >>
    /\ m_processHandle = << >>
    /\ m_processID = << >>
    /\ snapshot_handle = NullHandle
    /\ processhandle = NullHandle
    /\ process_id = << >>
    /\ processFlags = 0
    /\ ctor = "none"
    /\ arg = ""
    /\ module_name = ""
    /\ exception = "none"
    /\ pc = "start"
    /\ ret = NoCall
    /\ written = [a \in Address |-> << >>]
    /\ found = [n \in ModuleNames |-> << >>]

\* SafeMemory(process_name, processFlags), up to the snapshot request of AcquireProcessID.
Ctor_ByName(process_name, flags) ==
    /\ pc = "start"
    /\ LET h == CreateToolhelp32Snapshot(handleTable) IN
         /\ snapshot_handle' = h
         /\ handleTable' = TableWith(handleTable, h, 0)
    /\ ctor' = "name"
    /\ arg' = process_name
    /\ processFlags' = flags
    /\ pc' = "AcquireProcessID"
    /\ UNCHANGED << environment, mem, closeErrors, openRequests, members,
                    processhandle, process_id, module_name, exception, ret, written, found >>

\* The rest of AcquireProcessID: the scan, the return and the end of snapshot_handle's scope.
AcquireProcessID_Return ==
    /\ pc = "AcquireProcessID"
    /\ process_id' = AcquireProcessID(snapshot_handle, procs, arg)
    /\ LET os == unique_handle_destroy(snapshot_handle,
                     [table |-> handleTable, errors |-> closeErrors]) IN
         /\ handleTable' = os.table
         /\ closeErrors' = os.errors
    /\ snapshot_handle' = NullHandle
    /\ pc' = "ctor"
    /\ UNCHANGED << environment, mem, openRequests, members, processhandle,
                    processFlags, ctor, arg, module_name, exception, ret, written, found >>

\* SafeMemory(window_name, processFlags, min_window), up to the call of AcquireProcessHandle.
Ctor_ByWindow(window_name, flags, min_window, windowAlive) ==
    /\ pc = "start"
    /\ process_id' = AcquireProcessIDByWindowName(window_name, windowAlive)
    /\ ctor' = "window"
    /\ arg' = window_name
    /\ processFlags' = flags
    /\ pc' = "ctor"
    /\ UNCHANGED << environment, mem, handleTable, closeErrors, openRequests,
                    members, snapshot_handle, processhandle, module_name, exception, ret,
                    written, found >>

\* SafeMemory(process_id, processFlags), up to the call of AcquireProcessHandle.
Ctor_ById(id, flags) ==
    /\ pc = "start"
    /\ process_id' = id
    /\ ctor' = "id"
    /\ arg' = id
    /\ processFlags' = flags
    /\ pc' = "ctor"
    /\ UNCHANGED << environment, mem, handleTable, closeErrors, openRequests,
                    members, snapshot_handle, processhandle, module_name, exception, ret,
                    written, found >>

\* The constructor's call of AcquireProcessHandle, up to OpenProcess in
\* CreateProcessHandle.  The first two constructors evaluate
\* process_id.value() for the argument, which throws on nullopt.
Ctor_AcquireProcessHandle ==
    /\ pc = "ctor"
    /\ IF ctor \in {"name", "window"} /\ ~has_value(process_id)
       THEN /\ exception' = bad_optional_access
            /\ pc' = "failed"
            /\ UNCHANGED << handleTable, openRequests, processhandle >>
       ELSE IF ~has_value(process_id)
       THEN /\ exception' = InvalidProcess
            /\ pc' = "failed"
            /\ UNCHANGED << handleTable, openRequests, processhandle >>
       ELSE LET h == OpenProcess(processFlags, value(process_id), handleTable) IN
            /\ processhandle' = h
            /\ handleTable' = TableWith(handleTable, h, processFlags)
            /\ openRequests' = Append(openRequests,
                   [access |-> processFlags, pid |-> value(process_id), handle |-> h])
            /\ pc' = "CreateProcessHandle"
            /\ UNCHANGED exception
    /\ UNCHANGED << environment, mem, closeErrors, members, snapshot_handle,
                    process_id, processFlags, ctor, arg, module_name, ret, written, found >>

\* CreateProcessHandle that returns a copy of the raw handle: the local
\* unique_handle still owns it and closes it at the end of its scope.
CreateProcessHandle_Return_CopiesHandle ==
    /\ pc = "CreateProcessHandle"
    /\ processhandle # NullHandle
    /\ m_processHandle' = << processhandle >>
    /\ LET os == unique_handle_destroy(processhandle,
                     [table |-> handleTable, errors |-> closeErrors]) IN
         /\ handleTable' = os.table
         /\ closeErrors' = os.errors
    /\ processhandle' = NullHandle
    /\ m_processID' = process_id
    /\ pc' = "live"
    /\ process_id' = << >>
    /\ processFlags' = 0
    /\ ctor' = "none"
    /\ arg' = ""
    /\ procs' = << >>
    /\ UNCHANGED << modules, snapshotsFail, mem, openRequests, snapshot_handle,
                    module_name, exception, ret, written, found >>

\* The return of CreateProcessHandle and AcquireProcessHandle, and the end of
\* the constructor: the throw, or the assignment of m_processID and the
\* return, where the constructor's parameters and locals cease to exist and
\* the process list stops being tracked.
CreateProcessHandle_Return ==
    /\ pc = "CreateProcessHandle"
    /\ IF processhandle = NullHandle
       THEN /\ m_processHandle' = << >>
            /\ LET os == unique_handle_destroy(processhandle,
                             [table |-> handleTable, errors |-> closeErrors]) IN
                 /\ handleTable' = os.table
                 /\ closeErrors' = os.errors
            /\ exception' = InvalidProcess
            /\ pc' = "failed"
            /\ UNCHANGED << m_processID, processhandle >>
            /\ UNCHANGED << process_id, processFlags, ctor, arg, procs >>
       ELSE /\ m_processHandle' = << processhandle >>
            /\ processhandle' = NullHandle
            /\ m_processID' = process_id
            /\ pc' = "live"
            /\ process_id' = << >>
            /\ processFlags' = 0
            /\ ctor' = "none"
            /\ arg' = ""
            /\ procs' = << >>
            /\ UNCHANGED << handleTable, closeErrors, exception >>
    /\ UNCHANGED << modules, snapshotsFail, mem, openRequests, snapshot_handle,
                    module_name, ret, written, found >>

\* found after a lookup of name returned result.
FoundAfter(name, result) ==
    IF has_value(found[name]) THEN found ELSE [found EXCEPT ![name] = << result >>]

\* GetModuleBaseAddress(module_name), up to the snapshot request.
GetModuleBaseAddress(name) ==
    /\ pc = "live"
    /\ IF ~has_value(m_processID)
       THEN /\ ret' = [op |-> "module", arg |-> name, val |-> << >>,
                       transfers |-> 0, moved |-> 0, repeat |-> has_value(found[name])]
            /\ found' = FoundAfter(name, << >>)
            /\ UNCHANGED << snapshot_handle, handleTable, module_name, pc >>
       ELSE /\ LET h == CreateToolhelp32Snapshot(handleTable) IN
                 /\ snapshot_handle' = h
                 /\ handleTable' = TableWith(handleTable, h, 0)
            /\ module_name' = name
            /\ pc' = "GetModuleBaseAddress"
            /\ UNCHANGED << ret, found >>
    /\ UNCHANGED << environment, mem, closeErrors, openRequests, members,
                    processhandle, ctorLocals, written >>

\* The rest of GetModuleBaseAddress: the scan, the return and the end of snapshot_handle's scope.
GetModuleBaseAddress_Return ==
    /\ pc = "GetModuleBaseAddress"
    /\ ret' = [op |-> "module", arg |-> module_name,
               val |-> ModuleScan(snapshot_handle, modules, module_name),
               transfers |-> 0, moved |-> 0, repeat |-> has_value(found[module_name])]
    /\ found' = FoundAfter(module_name, ModuleScan(snapshot_handle, modules, module_name))
    /\ LET os == unique_handle_destroy(snapshot_handle,
                     [table |-> handleTable, errors |-> closeErrors]) IN
         /\ handleTable' = os.table
         /\ closeErrors' = os.errors
    /\ snapshot_handle' = NullHandle
    /\ module_name' = ""
    /\ pc' = "live"
    /\ UNCHANGED << environment, mem, openRequests, members, processhandle,
                    ctorLocals, written >>

\* SafeReadMemory that drops the handle when the transfer fails.
SafeReadMemory_ResetsHandle(address_ptr) ==
    /\ pc = "live"
    /\ has_value(m_processHandle)
    /\ \E o \in ReadProcessMemory(value(m_processHandle), address_ptr, SizeofT) :
          /\ ret' = [op |-> "read", arg |-> address_ptr,
                     val |-> IF ~o.ok THEN << >> ELSE << Fetch(address_ptr, SizeofT) >>,
                     transfers |-> 1, moved |-> o.moved, repeat |-> FALSE]
          /\ m_processHandle' = IF o.ok THEN m_processHandle ELSE << >>
    /\ UNCHANGED << environment, mem, handleTable, closeErrors, openRequests,
                    m_processID, snapshot_handle, processhandle, ctorLocals,
                    module_name, pc, written, found >>

\* SafeReadMemory that returns a value-initialised T instead of the buffer.
SafeReadMemory_ReturnsDefault(address_ptr) ==
    /\ pc = "live"
    /\ has_value(m_processHandle)
    /\ \E o \in ReadProcessMemory(value(m_processHandle), address_ptr, SizeofT) :
          ret' = [op |-> "read", arg |-> address_ptr,
                  val |-> IF ~o.ok THEN << >> ELSE << [i \in 1..SizeofT |-> 0] >>,
                  transfers |-> 1, moved |-> o.moved, repeat |-> FALSE]
    /\ UNCHANGED << environment, mem, handleTable, closeErrors, openRequests,
                    members, snapshot_handle, processhandle, ctorLocals,
                    module_name, pc, written, found >>

\* SafeReadMemory that calls WriteProcessMemory with its zeroed buffer.
SafeReadMemory_Writes(address_ptr) ==
    /\ pc = "live"
    /\ has_value(m_processHandle)
    /\ \E o \in WriteProcessMemory(value(m_processHandle), address_ptr, SizeofT) :
          /\ mem' = Store(address_ptr, [i \in 1..SizeofT |-> 0], o.moved)
          /\ ret' = [op |-> "read", arg |-> address_ptr,
                     val |-> IF ~o.ok THEN << >> ELSE << [i \in 1..SizeofT |-> 0] >>,
                     transfers |-> 1, moved |-> o.moved, repeat |-> FALSE]
    /\ UNCHANGED << environment, handleTable, closeErrors, openRequests,
                    members, snapshot_handle, processhandle, ctorLocals,
                    module_name, pc, written, found >>

\* SafeReadMemory<T>(address_ptr).
SafeReadMemory(address_ptr) ==
    /\ pc = "live"
    /\ IF ~has_value(m_processHandle)
       THEN ret' = [op |-> "read", arg |-> address_ptr, val |-> << >>,
                    transfers |-> 0, moved |-> 0, repeat |-> FALSE]
       ELSE \E o \in ReadProcessMemory(value(m_processHandle), address_ptr, SizeofT) :
              ret' = [op |-> "read", arg |-> address_ptr,
                      val |-> IF ~o.ok THEN << >> ELSE << Fetch(address_ptr, SizeofT) >>,
                      transfers |-> 1, moved |-> o.moved, repeat |-> FALSE]
    /\ UNCHANGED << environment, mem, handleTable, closeErrors, openRequests,
                    members, snapshot_handle, processhandle, ctorLocals,
                    module_name, pc, written, found >>

\* written after a write of length at address_ptr that moved the first moved bytes.
WrittenAfter(address_ptr, length, ok, moved) ==
    [a \in Address |->
        IF ok /\ a = address_ptr THEN << length >>
        ELSE IF moved > 0 /\ a < address_ptr + moved /\ address_ptr < a + SizeofT
             THEN << >>
             ELSE written[a]]

\* SafeWriteMemory that returns true whatever WriteProcessMemory returned.
SafeWriteMemory_IgnoresResult(address_ptr, length) ==
    /\ pc = "live"
    /\ has_value(m_processHandle)
    /\ \E o \in WriteProcessMemory(value(m_processHandle), address_ptr, SizeofT) :
          /\ mem' = Store(address_ptr, length, o.moved)
          /\ written' = WrittenAfter(address_ptr, length, o.ok, o.moved)
          /\ ret' = [op |-> "write", arg |-> address_ptr, val |-> TRUE,
                     transfers |-> 1, moved |-> o.moved, repeat |-> FALSE]
    /\ UNCHANGED << environment, handleTable, closeErrors, openRequests,
                    members, snapshot_handle, processhandle, ctorLocals,
                    module_name, pc, found >>

\* SafeWriteMemory<T>(address_ptr, length).
SafeWriteMemory(address_ptr, length) ==
    /\ pc = "live"
    /\ IF ~has_value(m_processHandle)
       THEN /\ ret' = [op |-> "write", arg |-> address_ptr, val |-> FALSE,
                       transfers |-> 0, moved |-> 0, repeat |-> FALSE]
            /\ UNCHANGED << mem, written >>
       ELSE \E o \in WriteProcessMemory(value(m_processHandle), address_ptr, SizeofT) :
              /\ mem' = Store(address_ptr, length, o.moved)
              /\ written' = WrittenAfter(address_ptr, length, o.ok, o.moved)
              /\ ret' = [op |-> "write", arg |-> address_ptr,
                         val |-> IF ~o.ok THEN FALSE ELSE TRUE,
                         transfers |-> 1, moved |-> o.moved, repeat |-> FALSE]
    /\ UNCHANGED << environment, handleTable, closeErrors, openRequests,
                    members, snapshot_handle, processhandle, ctorLocals,
                    module_name, pc, found >>

\* ~SafeMemory(): the members are destroyed, m_processHandle with its deleter.
Destructor ==
    /\ pc = "live"
    /\ LET os == IF has_value(m_processHandle)
                 THEN unique_handle_destroy(value(m_processHandle),
                          [table |-> handleTable, errors |-> closeErrors])
                 ELSE [table |-> handleTable, errors |-> closeErrors] IN
         /\ handleTable' = os.table
         /\ closeErrors' = os.errors
    /\ m_processHandle' = << >>
    /\ m_processID' = << >>
    /\ pc' = "destroyed"
    /\ UNCHANGED << environment, mem, openRequests, snapshot_handle,
                    processhandle, ctorLocals, module_name, ret, written, found >>

Next ==
    \/ \E n \in ExeNames, f \in SafeMemory_Access : Ctor_ByName(n, f)
    \/ AcquireProcessID_Return
    \/ \E t \in WindowTitles, f \in SafeMemory_Access, m \in BOOLEAN, w \in BOOLEAN :
          Ctor_ByWindow(t, f, m, w)
    \/ \E id \in {<< >>} \cup {<< p >> : p \in {4 * i : i \in 1..(MaxProcs + 1)}},
          f \in SafeMemory_Access : Ctor_ById(id, f)
    \/ Ctor_AcquireProcessHandle
    \/ CreateProcessHandle_Return
    \/ \E n \in ModuleNames : GetModuleBaseAddress(n)
    \/ GetModuleBaseAddress_Return
    \/ \E a \in Address : SafeReadMemory(a)
    \/ \E a \in Address, v \in ValueT : SafeWriteMemory(a, v)
    \/ Destructor

Spec == Init /\ [][Next]_vars

----------------------------------------------------------------------------
\* The properties.

\* What a scan of every entry in enumeration order finds: the first match.
FirstModuleBase(name) ==
    IF \E i \in 1..Len(modules) : modules[i].szModule = name
    THEN << modules[CHOOSE i \in 1..Len(modules) :
                /\ modules[i].szModule = name
                /\ \A j \in 1..(i - 1) : modules[j].szModule # name].modBaseAddr >>
    ELSE << >>
FirstProcessID(name) ==
    IF \E i \in 1..Len(procs) : procs[i].szExeFile = name
    THEN << procs[CHOOSE i \in 1..Len(procs) :
                /\ procs[i].szExeFile = name
                /\ \A j \in 1..(i - 1) : procs[j].szExeFile # name].th32ProcessID >>
    ELSE << >>

\* C1: GetModuleBaseAddress returns the base address of the first snapshot
\* entry with the given name, whatever its position, and "not found" only
\* when no entry matches or the snapshot could not be created.
C1_ModuleFirstMatch ==
    ret.op = "module" =>
        ret.val = IF snapshotsFail THEN << >>
                  ELSE FirstModuleBase(ret.arg)

\* C2: AcquireProcessID returns the identifier of the first snapshot entry
\* whose executable name equals the name, whatever its position, and "not
\* found" only when no entry matches or the snapshot could not be created.
C2_ProcessFirstMatch ==
    (pc = "ctor" /\ ctor = "name") =>
        process_id = IF snapshotsFail THEN << >>
                     ELSE FirstProcessID(arg)

\* C3: a construction that fails fails with InvalidProcess and nothing else,
\* leaves no open handle, and a construction whose resolution yielded no
\* identifier or whose OpenProcess failed yields no object.
C3_FailsWithInvalidProcess ==
    /\ pc = "failed" =>
          /\ exception = InvalidProcess
          /\ DOMAIN handleTable = {}
    /\ pc \in {"live", "GetModuleBaseAddress", "destroyed"} =>
          /\ Len(openRequests) = 1
          /\ openRequests[1].handle # NullHandle

\* C9: CloseHandle is never called on INVALID_HANDLE_VALUE or on null.
C9_NoCloseOfInvalid ==
    /\ INVALID_HANDLE_VALUE \notin closeErrors
    /\ NullHandle \notin closeErrors

\* The positions at which a constructed object exists.
Constructed == {"live", "GetModuleBaseAddress"}
Succeeded(r) == IF r.op = "read" THEN has_value(r.val) ELSE r.val = TRUE
RangeMapped(addr) == MappedPrefix(addr, SizeofT) = SizeofT

\* C4: while a constructed object exists it holds a present identifier and a
\* present, non-null, open handle, and both are the values of the one
\* OpenProcess call made at construction.
C4_ObjectInvariant ==
    pc \in Constructed =>
        /\ Len(openRequests) = 1
        /\ m_processID = << openRequests[1].pid >>
        /\ m_processHandle = << openRequests[1].handle >>
        /\ openRequests[1].handle \in HandleValues
        /\ openRequests[1].handle \in DOMAIN handleTable
C4_Witness ==
    /\ pc = "live"
    /\ ret.op \in {"read", "write"}
    /\ ret.moved < SizeofT
    /\ \E n \in ModuleNames : has_value(found[n])
    /\ m_processHandle = << openRequests[1].handle >>

\* C5: every open handle has exactly one owner, an owner's handle is open,
\* CloseHandle is never called on a handle value that is not open (no handle
\* is closed twice), and outside a call only the object's process handle is open.
Owners(h) ==
    {o \in {"snapshot_handle", "processhandle", "m_processHandle"} :
        \/ o = "snapshot_handle" /\ snapshot_handle = h
        \/ o = "processhandle" /\ processhandle = h
        \/ o = "m_processHandle" /\ m_processHandle = << h >>}
C5_HandleOwnership ==
    /\ \A h \in HandleValues :
          /\ Cardinality(Owners(h)) <= 1
          /\ h \in DOMAIN handleTable <=> Owners(h) # {}
    /\ closeErrors \cap HandleValues = {}
    /\ pc \in {"start", "ctor", "failed", "destroyed"} => DOMAIN handleTable = {}
    /\ pc = "live" => DOMAIN handleTable = {value(m_processHandle)}
C5_Witness ==
    /\ pc = "destroyed"
    /\ Len(openRequests) = 1
    /\ openRequests[1].handle \in HandleValues
    /\ ret.op = "module"
    /\ ~snapshotsFail
    /\ DOMAIN handleTable = {}

\* C6: a read or write issues exactly one OS transfer call and returns
\* success exactly when that call moved all sizeof(T) bytes; an OS error or a
\* shorter transfer, zero bytes included, is a failure.
C6_TransferFailure ==
    ret.op \in {"read", "write"} =>
        /\ ret.transfers = 1
        /\ Succeeded(ret) <=> ret.moved = SizeofT
C6_Witness ==
    /\ ret.op = "write"
    /\ ret.val = FALSE
    /\ ret.moved > 0
    /\ ret.moved < SizeofT

\* C7: a read at an address whose last successful write of v is still intact,
\* through a handle that may read, returns v.
C7_RoundTrip ==
    (/\ ret.op = "read"
     /\ has_value(written[ret.arg])
     /\ HasRight(openRequests[1].access, PROCESS_VM_READ)) =>
        ret.val = written[ret.arg]
C7_Witness ==
    /\ ret.op = "read"
    /\ has_value(written[ret.arg])
    /\ ret.val = << [i \in 1..SizeofT |-> 1] >>

\* C8: construction issues one OpenProcess request with exactly the rights
\* passed, the handle keeps them, construction for a running process
\* succeeds, and on mapped memory a read succeeds exactly when the level is
\* ReadAccess or AllAccess and a write exactly when it is WriteAccess or AllAccess.
TargetRunning ==
    \/ ctor = "name" /\ ~snapshotsFail /\ \E i \in 1..Len(procs) : procs[i].szExeFile = arg
    \/ ctor = "id" /\ has_value(arg) /\ value(arg) \in RunningPids
C8_AccessLevel ==
    /\ pc = "CreateProcessHandle" =>
          /\ Len(openRequests) = 1
          /\ openRequests[1].access = processFlags
    /\ pc \in Constructed =>
          /\ Len(openRequests) = 1
          /\ handleTable[value(m_processHandle)] = openRequests[1].access
    /\ pc = "failed" /\ ctor \in {"name", "id"} => ~TargetRunning
    /\ (ret.op = "read" /\ RangeMapped(ret.arg)) =>
          (has_value(ret.val) <=>
              openRequests[1].access \in {SafeMemory_ReadAccess, SafeMemory_AllAccess})
    /\ (ret.op = "write" /\ RangeMapped(ret.arg)) =>
          (ret.val <=>
              openRequests[1].access \in {SafeMemory_WriteAccess, SafeMemory_AllAccess})

====
